---- MODULE Spec2Model ----
(***************************************************************************)
(* Server actions of the car marketplace (src/actions/cars.js): addCar,    *)
(* getCars, deleteCar, updateCarStatus over the Car table and the          *)
(* "car-images" storage bucket, and the two AI extractors                  *)
(* processCarImageWithAI and processImageSearch.                           *)
(*                                                                         *)
(* Strings are sequences of tokens, so that startsWith, split, match and   *)
(* replace are computed on them as the code computes them on characters.   *)
(* Each handler is one action; what it did is recorded in `last` (the     *)
(* admin actions) or `ai` (the extractors): how the call ended and the     *)
(* ordered trace of the external calls it made.                            *)
(***************************************************************************)
EXTENDS Integers, Sequences, FiniteSets, TLC

VARIABLES cars, images, last, ai

vars == <<cars, images, last, ai>>

----------------------------------------------------------------------------
(* Bounds *)

MaxImages == 3        \* longest images array submitted to addCar
MaxMissing == 2       \* most required keys an AI answer leaves out

\* the identifiers uuidv4() draws
CarIds == {"uuid-a", "uuid-b"}
Statuses == {"AVAILABLE", "SOLD"}
Undefined == <<"undefined">>
NoCar == [images |-> <<>>, status |-> "none", featured |-> FALSE]
Searches == {"", "toyota"}

----------------------------------------------------------------------------
(* Strings of the image pipeline, as token sequences *)

DataImage == "data:image/"
AlnumTokens == {"png", "jpeg", "base64", "AAAA"}

PngEntry == <<DataImage, "png", ";", "base64", ",", "AAAA">>
BadEntry == <<"not-an-image">>
NoPayloadEntry == <<DataImage, "png">>
Entries == {PngEntry, BadEntry, NoPayloadEntry}

RECURSIVE SeqsUpTo(_, _)
SeqsUpTo(S, n) ==
  IF n = 0 THEN {<<>>}
  ELSE LET shorter == SeqsUpTo(S, n - 1)
       IN shorter \cup {Append(s, e) : s \in shorter, e \in S}

ImageInputs == SeqsUpTo(Entries, MaxImages)

\* base64Data.startsWith("data:image/")
StartsWith(s, tok) == Len(s) > 0 /\ s[1] = tok

\* !base64Data
Falsy(s) == s = <<>>

\* base64Data.split(",")[1]: the tokens between the first and the second
\* comma, undefined when there is no comma
SplitComma1(s) ==
  LET commas == {p \in 1..Len(s) : s[p] = ","}
  IN IF commas = {} THEN Undefined
     ELSE LET first == CHOOSE p \in commas : \A q \in commas : p <= q
              later == {q \in commas : q > first}
              stop == IF later = {} THEN Len(s) + 1
                      ELSE CHOOSE q \in later : \A r \in later : q <= r
          IN SubSeq(s, first + 1, stop - 1)

\* base64Data.match(/data:image\/([a-zA-Z0-9]+);/), then mimeMatch[1] or "jpeg"
FileExtension(s) ==
  LET hits == {p \in 1..(Len(s) - 2) :
                 s[p] = DataImage /\ s[p + 1] \in AlnumTokens /\ s[p + 2] = ";"}
  IN IF hits = {} THEN "jpeg"
     ELSE s[(CHOOSE p \in hits : \A q \in hits : p <= q) + 1]

\* `cars/${carId}/image-${Date.now()}-${i}.${fileExtension}`; the timestamp
\* is the opaque token "now"
FilePath(carId, i, ext) ==
  <<"cars/", carId, "/image-", "now", "-", ToString(i), ".", ext>>

\* `${NEXT_PUBLIC_SUPABASE_URL}/storage/v1/object/public/car-images/${filePath}`
PublicUrl(filePath) ==
  <<"https://project.supabase.co", "/storage/v1/object/public", "/car-images/">> \o filePath

\* new URL(imageUrl).pathname.match(/\/car-images\/(.*)/): the rest of the
\* path after the first "/car-images/", null when there is none
PathOfUrl(url) ==
  LET hits == {p \in 2..Len(url) : url[p] = "/car-images/"}
  IN IF hits = {} THEN <<>>
     ELSE SubSeq(url, (CHOOSE p \in hits : \A q \in hits : p <= q) + 1, Len(url))

----------------------------------------------------------------------------
(* Trace events and call records *)

Ev(kind, arg, res) == [kind |-> kind, arg |-> arg, res |-> res]

\* an optional argument is <<>> (undefined) or <<value>>
NoArgs == [status |-> <<>>, featured |-> <<>>]

Idle ==
  [op |-> "none", identity |-> "none", id |-> "", args |-> NoArgs,
   outcome |-> "none", success |-> FALSE, error |-> "", trace |-> <<>>, data |-> {}]

----------------------------------------------------------------------------
(* Identity check: auth(), then db.user.findUnique *)

IdentityCheckSkipLookup(identity) ==
  IF identity = "none"
  THEN [error |-> "Unauthorized!", trace |-> <<Ev("auth", <<>>, "null")>>]
  ELSE [error |-> "", trace |-> <<Ev("auth", <<>>, "userId")>>]

IdentityCheck(identity) ==
  IF identity = "none"
  THEN [error |-> "Unauthorized!", trace |-> <<Ev("auth", <<>>, "null")>>]
  ELSE IF identity = "unknown"
  THEN [error |-> "User not found",
        trace |-> <<Ev("auth", <<>>, "userId"), Ev("db.user.findUnique", <<>>, "null")>>]
  ELSE [error |-> "",
        trace |-> <<Ev("auth", <<>>, "userId"), Ev("db.user.findUnique", <<>>, "user")>>]

Identities == {"none", "unknown", "known"}

CatchRethrow(res, msg) ==
  [res EXCEPT !.outcome = "thrown", !.success = FALSE, !.error = msg]

\* catch (error) { return { success: false, error: error.message } }
CatchReturn(res, msg) ==
  [res EXCEPT !.outcome = "returned", !.success = FALSE, !.error = msg]

\* catch (error) { throw new Error("Error adding car:" + error.message) }
CatchThrow(res, msg) ==
  [res EXCEPT !.outcome = "thrown", !.success = FALSE,
              !.error = "Error adding car:" \o msg]

ReturnSuccess(res) ==
  [res EXCEPT !.outcome = "returned", !.success = TRUE, !.error = ""]

----------------------------------------------------------------------------
(* addCar *)

\* if (imageUrls.length === 0) throw
NoValidImagesNever(imageUrls) == FALSE

NoValidImages(imageUrls) == Len(imageUrls) = 0

\* The for loop over images, from position p (index p - 1) on.  failAt is
\* the ordinal of the storage upload that fails (0: none), failMode whether
\* it returns { error } or rejects.
RECURSIVE UploadLoop(_, _, _, _, _, _)
UploadLoop(imgs, p, carId, failAt, failMode, acc) ==
  IF acc.error # "" \/ p > Len(imgs) THEN acc
  ELSE LET base64Data == imgs[p]
       IN IF Falsy(base64Data) \/ ~StartsWith(base64Data, DataImage)
          THEN UploadLoop(imgs, p + 1, carId, failAt, failMode, acc)
          ELSE LET base64 == SplitComma1(base64Data)
                   fileExtension == FileExtension(base64Data)
                   filePath == FilePath(carId, p - 1, fileExtension)
                   nth == Len(acc.urls) + 1
                   fails == nth = failAt
               IN IF base64 = Undefined
                  THEN [acc EXCEPT !.error = "Buffer.from: first argument is undefined"]
                  ELSE IF fails
                  THEN [acc EXCEPT
                          !.trace = Append(@, Ev("storage.upload", filePath, failMode)),
                          !.error = IF failMode = "error"
                                    THEN "Failed to upload image: storage error"
                                    ELSE "fetch failed"]
                  ELSE UploadLoop(imgs, p + 1, carId, failAt, failMode,
                         [acc EXCEPT
                            !.trace = Append(@, Ev("storage.upload", filePath, "ok")),
                            !.urls = Append(@, PublicUrl(filePath))])

AddCarRun(db, imgs, identity, carId, carData, failAt, failMode, dbFail) ==
  LET call == [Idle EXCEPT !.op = "addCar", !.identity = identity]
      idc == IdentityCheck(identity)
      up == UploadLoop(imgs, 1, carId, failAt, failMode,
                       [urls |-> <<>>, trace |-> idc.trace, error |-> ""])
      run == [call EXCEPT !.id = carId, !.trace = up.trace]
      created == ~dbFail /\ db[carId] = NoCar
      row == [images |-> up.urls, status |-> carData.status,
              featured |-> carData.featured]
  IN IF idc.error # ""
     THEN [cars |-> db, res |-> CatchThrow([call EXCEPT !.trace = idc.trace], idc.error)]
     ELSE IF up.error # ""
     THEN [cars |-> db, res |-> CatchThrow(run, up.error)]
     ELSE IF NoValidImages(up.urls)
     THEN [cars |-> db, res |-> CatchThrow(run, "No valid images were uploaded")]
     ELSE IF ~created
     THEN [cars |-> db,
           res |-> CatchThrow(
                     [run EXCEPT !.trace = Append(@, Ev("db.car.create", <<>>, "throw"))],
                     IF dbFail THEN "database unavailable"
                     ELSE "Unique constraint failed on the fields: (id)")]
     ELSE [cars |-> [db EXCEPT ![carId] = row],
           res |-> ReturnSuccess(
                     [run EXCEPT
                        !.trace = @ \o <<Ev("db.car.create", <<>>, "ok"),
                                         Ev("revalidatePath", <<"/admin/cars">>, "ok")>>])]

CarDatas == [status : Statuses, featured : BOOLEAN]

\* What the collaborators do during one addCar: nothing goes wrong, the
\* failAt-th upload fails, or db.car.create fails
AddCarEnvs ==
  {[failAt |-> 0, failMode |-> "ok", dbFail |-> d] : d \in BOOLEAN}
  \cup {[failAt |-> k, failMode |-> m, dbFail |-> FALSE] :
          k \in 1..MaxImages, m \in {"error", "throw"}}

addCar ==
  \E identity \in Identities :
    IF identity # "known"
    THEN /\ last' = AddCarRun(cars, images, identity, "", [status |-> "", featured |-> FALSE],
                              0, "ok", FALSE).res
         /\ UNCHANGED <<cars, images, ai>>
    ELSE \E carId \in CarIds, carData \in CarDatas, env \in AddCarEnvs :
           LET r == AddCarRun(cars, images, identity, carId, carData,
                              env.failAt, env.failMode, env.dbFail)
           IN /\ cars' = r.cars
              /\ last' = r.res
              /\ UNCHANGED <<images, ai>>

----------------
(* getCars *)

\* getCars(search).  The rows of this model carry no make, model or color,
\* so a non-empty search returns any subset of the rows (what the OR filter
\* keeps is decided by attributes outside the model); the default search
\* returns them all.  The order of the result is not modelled.
GetCarsRun(db, identity, search, matching) ==
  LET call == [Idle EXCEPT !.op = "getCars", !.identity = identity]
      idc == IdentityCheck(identity)
      present == {c \in CarIds : db[c] # NoCar}
      where == IF search # "" THEN <<"OR", search>> ELSE <<>>
  IN IF idc.error # ""
     THEN CatchReturn([call EXCEPT !.trace = idc.trace], idc.error)
     ELSE ReturnSuccess(
            [call EXCEPT !.trace = Append(idc.trace, Ev("db.car.findMany", where, "ok")),
                         !.data = IF search # "" THEN present \cap matching ELSE present])

getCars ==
  \E identity \in Identities, search \in Searches, matching \in SUBSET CarIds :
    /\ last' = GetCarsRun(cars, identity, search, matching)
    /\ UNCHANGED <<cars, images, ai>>

----------------------------------------------------------------------------
(* deleteCar *)

\* if (!car) return { success: false, error: "Car not found" }
CarMissingNever(car) == FALSE

CarMissing(car) == car = NoCar

\* car.images.map(url -> path or null).filter(Boolean)
FilePaths(imageUrls) ==
  LET paths == [k \in 1..Len(imageUrls) |-> PathOfUrl(imageUrls[k])]
  IN SelectSeq(paths, LAMBDA path : path # <<>>)

\* The inner try block: storage.remove(filePaths) when there are paths.
\* stRes is what the removal does: "ok", "error" (returned) or "throw";
\* the block's own catch swallows a throw.
RemoveImagesPropagate(imageUrls, stRes) ==
  LET filePaths == FilePaths(imageUrls)
  IN IF Len(filePaths) > 0
     THEN [trace |-> <<Ev("storage.remove", filePaths, stRes)>>,
           thrown |-> IF stRes = "ok" THEN "" ELSE "storage removal failed"]
     ELSE [trace |-> <<>>, thrown |-> ""]

RemoveImages(imageUrls, stRes) ==
  LET filePaths == FilePaths(imageUrls)
  IN IF Len(filePaths) > 0
     THEN [trace |-> <<Ev("storage.remove", filePaths, stRes)>>, thrown |-> ""]
     ELSE [trace |-> <<>>, thrown |-> ""]

StorageResults == {"ok", "error", "throw"}

DeleteCarRun(db, identity, id, dbFail, stRes) ==
  LET idc == IdentityCheck(identity)
      call == [Idle EXCEPT !.op = "deleteCar", !.identity = identity,
                           !.id = IF idc.error = "" THEN id ELSE @]
      car == db[id]
      found == Append(idc.trace,
                      Ev("db.car.findUnique", <<>>, IF car = NoCar THEN "null" ELSE "car"))
      rm == RemoveImages(car.images, stRes)
  IN IF idc.error # ""
     THEN [cars |-> db, res |-> CatchReturn([call EXCEPT !.trace = idc.trace], idc.error)]
     ELSE IF CarMissing(car)
     THEN [cars |-> db,
           res |-> [call EXCEPT !.outcome = "returned", !.success = FALSE,
                                !.error = "Car not found", !.trace = found]]
     ELSE IF dbFail \/ car = NoCar
     THEN [cars |-> db,
           res |-> CatchReturn(
                     [call EXCEPT !.trace = Append(found, Ev("db.car.delete", <<>>, "throw"))],
                     IF car = NoCar THEN "Record to delete does not exist."
                     ELSE "database unavailable")]
     ELSE IF rm.thrown # ""
     THEN [cars |-> [db EXCEPT ![id] = NoCar],
           res |-> CatchReturn(
                     [call EXCEPT !.trace = Append(found, Ev("db.car.delete", <<>>, "ok"))
                                            \o rm.trace],
                     rm.thrown)]
     ELSE [cars |-> [db EXCEPT ![id] = NoCar],
           res |-> ReturnSuccess(
                     [call EXCEPT
                        !.trace = Append(found, Ev("db.car.delete", <<>>, "ok"))
                                  \o rm.trace
                                  \o <<Ev("revalidatePath", <<"/admin/cars">>, "ok")>>])]

deleteCar ==
  \E identity \in Identities, id \in CarIds, dbFail \in BOOLEAN, stRes \in StorageResults :
    LET r == DeleteCarRun(cars, identity, id, dbFail, stRes)
    IN /\ cars' = r.cars
       /\ last' = r.res
       /\ UNCHANGED <<images, ai>>

----------------------------------------------------------------------------
(* updateCarStatus *)

UpdateDataOverwrite(status, featured) ==
  [f \in {"status", "featured"} |->
     IF f = "status" THEN (IF status = <<>> THEN "AVAILABLE" ELSE status[1])
     ELSE (IF featured = <<>> THEN FALSE ELSE featured[1])]

\* updateData: only the fields whose argument is not undefined
UpdateData(status, featured) ==
  [f \in {g \in {"status", "featured"} :
            (g = "status" /\ status # <<>>) \/ (g = "featured" /\ featured # <<>>)} |->
     IF f = "status" THEN status[1] ELSE featured[1]]

\* db.car.update({ where: { id }, data })
ApplyUpdate(car, data) ==
  [car EXCEPT
     !.status = IF "status" \in DOMAIN data THEN data["status"] ELSE @,
     !.featured = IF "featured" \in DOMAIN data THEN data["featured"] ELSE @]

UpdateCarStatusRun(db, identity, id, status, featured, dbFail) ==
  LET idc == IdentityCheck(identity)
      call == [Idle EXCEPT !.op = "updateCarStatus", !.identity = identity,
                           !.id = IF idc.error = "" THEN id ELSE @,
                           !.args = IF idc.error = "" 
                                    THEN [status |-> status, featured |-> featured] ELSE @]
      updateData == UpdateData(status, featured)
  IN IF idc.error # ""
     THEN [cars |-> db, res |-> CatchReturn([call EXCEPT !.trace = idc.trace], idc.error)]
     ELSE IF dbFail \/ db[id] = NoCar
     THEN [cars |-> db,
           res |-> CatchReturn(
                     [call EXCEPT !.trace = Append(idc.trace, Ev("db.car.update", <<>>, "throw"))],
                     IF dbFail THEN "database unavailable"
                     ELSE "Record to update not found.")]
     ELSE [cars |-> [db EXCEPT ![id] = ApplyUpdate(@, updateData)],
           res |-> ReturnSuccess(
                     [call EXCEPT
                        !.trace = idc.trace \o
                                  <<Ev("db.car.update", <<>>, "ok"),
                                    Ev("revalidatePath", <<"/admin/cars">>, "ok")>>])]

OptStatus == {<<>>} \cup {<<s>> : s \in Statuses}
OptFeatured == {<<>>, <<TRUE>>, <<FALSE>>}

updateCarStatus ==
  \E identity \in Identities, id \in CarIds, status \in OptStatus,
     featured \in OptFeatured, dbFail \in BOOLEAN :
    LET r == UpdateCarStatusRun(cars, identity, id, status, featured, dbFail)
    IN /\ cars' = r.cars
       /\ last' = r.res
       /\ UNCHANGED <<images, ai>>

----------------------------------------------------------------------------------------------------------------------------------------
(* The AI extractors.  The provider's text is a sequence of tokens: code   *)
(* fence, the word json, newline, prose, or one JSON value.                *)

Tok(t, keys) == [t |-> t, keys |-> keys]
Fence == Tok("fence", {})
JsonTag == Tok("json", {})
NL == Tok("newline", {})
Prose == Tok("prose", {})
JsonNumber == Tok("number", {})
JsonNull == Tok("null", {})
Obj(keys) == Tok("object", keys)
NoData == Tok("none", {})

\* requiredFields of processCarImageWithAI
FullFields ==
  {"make", "model", "year", "color", "bodyType", "price", "mileage", "fuelType",
   "transmission", "description", "confidence"}

\* the fields the prompt of processImageSearch asks for
SearchFields == {"make", "bodyType", "color", "confidence"}

Objects ==
  {Obj(F \ m) : F \in {FullFields}, m \in {x \in SUBSET FullFields : Cardinality(x) <= MaxMissing}}
  \cup {Obj(SearchFields \ m) : m \in {x \in SUBSET SearchFields : Cardinality(x) <= MaxMissing}}

Bodies == Objects \cup {JsonNumber, JsonNull, Prose}

Responses ==
  UNION {{<<b>>, <<Fence, JsonTag, NL, b, NL, Fence>>, <<Fence, NL, b, NL, Fence>>,
          <<Prose, b>>} : b \in Bodies}

\* text.replace(/```(?:json)?\n?/g, ""): every fence, with the json tag and
\* the newline that may follow it, is removed
RECURSIVE StripFences(_)
StripFences(text) ==
  IF text = <<>> THEN <<>>
  ELSE IF Head(text) = Fence
  THEN LET a == Tail(text)
           b == IF a # <<>> /\ Head(a) = JsonTag THEN Tail(a) ELSE a
           c == IF b # <<>> /\ Head(b) = NL THEN Tail(b) ELSE b
       IN StripFences(c)
  ELSE <<Head(text)>> \o StripFences(Tail(text))

\* .trim()
RECURSIVE Trim(_)
Trim(text) ==
  IF text = <<>> THEN <<>>
  ELSE IF Head(text) = NL THEN Trim(Tail(text))
  ELSE IF text[Len(text)] = NL THEN Trim(SubSeq(text, 1, Len(text) - 1))
  ELSE text

CleanedText(text) == Trim(StripFences(text))

\* JSON.parse(cleanedText): the value, or a SyntaxError
JsonParse(cleaned) ==
  LET solid == SelectSeq(cleaned, LAMBDA tok : tok # NL)
  IN IF Len(solid) = 1 /\ solid[1].t \in {"object", "number", "null"}
     THEN [ok |-> TRUE, value |-> solid[1]]
     ELSE [ok |-> FALSE, value |-> NoData]

\* requiredFields.filter((field) => !(field in carDetails)); `in` throws a
\* TypeError when carDetails is not an object
MissingFields(carDetails) ==
  IF carDetails.t = "object"
  THEN [ok |-> TRUE, missing |-> FullFields \ carDetails.keys]
  ELSE [ok |-> FALSE, missing |-> {}]

\* An error value: its message text, the field names written into the
\* message, and the rate-limit details it holds (<<>>: none)
Msg(message, fields) == [message |-> message, fields |-> fields, details |-> <<>>]

\* new Error(message, options): a string passed as options sets nothing
NewError(message, options) == Msg(message, {})

AiIdle ==
  [op |-> "none", text |-> <<>>, decision |-> "none", remaining |-> 0, reset |-> 0,
   outcome |-> "none", success |-> FALSE, error |-> Msg("", {}), data |-> NoData,
   providerCalls |-> 0, logged |-> <<>>]

AiReturn(call, success, error, data) ==
  [call EXCEPT !.outcome = "returned", !.success = success, !.error = error, !.data = data]

AiThrow(call, message) ==
  [call EXCEPT !.outcome = "thrown", !.success = FALSE, !.error = message]

\* catch (parseError): what was thrown is logged, the result carries a
\* fixed text
ParseErrorResult(call, parseError) ==
  AiReturn([call EXCEPT !.logged = <<parseError>>], FALSE,
           Msg("Failed to parse AI response", {}), NoData)

\* The inner try/catch of processCarImageWithAI
ParseCarDetails(call, text) ==
  LET parsed == JsonParse(CleanedText(text))
      fields == MissingFields(parsed.value)
  IN IF ~parsed.ok
     THEN ParseErrorResult(call, Msg("SyntaxError", {}))
     ELSE IF ~fields.ok
     THEN ParseErrorResult(call, Msg("TypeError", {}))
     ELSE IF fields.missing # {}
     THEN ParseErrorResult(call, Msg("AI response missing required fields: ", fields.missing))
     ELSE AiReturn(call, TRUE, Msg("", {}), parsed.value)

\* provider is <<>> when generateContent rejects, <<text>> when it answers
ProcessCarImageWithAIRun(apiKey, provider) ==
  LET call == [AiIdle EXCEPT !.op = "processCarImageWithAI"]
  IN IF ~apiKey
     THEN AiThrow(call, Msg("Gemini API error:" \o "Gemini API key is not configured", {}))
     ELSE IF provider = <<>>
     THEN AiThrow([call EXCEPT !.providerCalls = 1],
                  Msg("Gemini API error:" \o "fetch failed", {}))
     ELSE ParseCarDetails([call EXCEPT !.providerCalls = 1, !.text = provider[1]],
                          provider[1])

Providers == {<<>>} \cup {<<r>> : r \in Responses}

processCarImageWithAI ==
  \E apiKey \in BOOLEAN, provider \in Providers :
    /\ ai' = ProcessCarImageWithAIRun(apiKey, provider)
    /\ UNCHANGED <<cars, images, last>>

\* The inner try/catch of processImageSearch: its catch block reads the
\* undeclared name parseError, which throws a ReferenceError out of it
ParseSearchDetails(call, text) ==
  LET parsed == JsonParse(CleanedText(text))
  IN IF parsed.ok
     THEN AiReturn(call, TRUE, Msg("", {}), parsed.value)
     ELSE AiThrow(call, NewError("AI search error:", "parseError is not defined"))

\* aj.protect(req, { requested: 1 })
Decisions ==
  {[kind |-> "allow", remaining |-> 0, reset |-> 0],
   [kind |-> "bot", remaining |-> 0, reset |-> 0]}
  \cup {[kind |-> "rate-limit", remaining |-> r, reset |-> t] : r \in {0, 1}, t \in {30, 60}}

ProcessImageSearchRun(decision, apiKey, provider) ==
  LET call == [AiIdle EXCEPT !.op = "processImageSearch", !.decision = decision.kind,
                             !.remaining = decision.remaining, !.reset = decision.reset]
  IN IF decision.kind = "rate-limit"
     THEN AiThrow([call EXCEPT
                     !.logged = <<[message |-> "RATE_LIMIT_EXCEDDED", fields |-> {},
                                   details |-> <<decision.remaining, decision.reset>>]>>],
                  NewError("AI search error:", "Too many requests. Please try again later."))
     ELSE IF decision.kind # "allow"
     THEN AiThrow(call, NewError("AI search error:", "Request blocked"))
     ELSE IF ~apiKey
     THEN AiThrow(call, NewError("AI search error:", "Gemini API key is not configured"))
     ELSE IF provider = <<>>
     THEN AiThrow([call EXCEPT !.providerCalls = 1],
                  NewError("AI search error:", "fetch failed"))
     ELSE ParseSearchDetails([call EXCEPT !.providerCalls = 1, !.text = provider[1]],
                             provider[1])

processImageSearch ==
  \E decision \in Decisions, apiKey \in BOOLEAN, provider \in Providers :
    /\ ai' = ProcessImageSearchRun(decision, apiKey, provider)
    /\ UNCHANGED <<cars, images, last>>

----------------
(* The admin actions as a state machine *)

Init ==
  /\ cars = [c \in CarIds |-> NoCar]
  /\ images \in ImageInputs
  /\ last = Idle
  /\ ai = AiIdle

Next == addCar \/ getCars \/ deleteCar \/ updateCarStatus

Spec == Init /\ [][Next]_vars

(* The extractors as a state machine *)

InitAI ==
  /\ cars = [c \in CarIds |-> NoCar]
  /\ images = <<>>
  /\ last = Idle
  /\ ai = AiIdle

NextAI == processCarImageWithAI \/ processImageSearch

SpecAI == InitAI /\ [][NextAI]_vars

----------------------------------------------------------------------------
(* Properties *)

Mutating == {"addCar", "deleteCar", "updateCarStatus"}
KindSet(trace) == {trace[k].kind : k \in 1..Len(trace)}
OkUploads(trace) == SelectSeq(trace, LAMBDA e : e.kind = "storage.upload" /\ e.res = "ok")
Present == {c \in CarIds : cars[c] # NoCar}

\* C1: every Car row has at least one image URL, and an addCar call in
\* which no image was uploaded successfully creates no Car row.
C1_CarHasImage ==
  /\ \A c \in CarIds : cars[c] # NoCar => Len(cars[c].images) >= 1
  /\ (last.op = "addCar" /\ OkUploads(last.trace) = <<>>) =>
       (~last.success /\ "db.car.create" \notin KindSet(last.trace))

C1_Witness ==
  /\ Present # {}
  /\ last.op = "addCar" /\ last.identity = "known"
  /\ OkUploads(last.trace) = <<>>
  /\ "storage.upload" \in KindSet(last.trace)

\* C2: a mutating operation starts with the identity check, and when the
\* check fails the call makes no storage upload or removal, no insert,
\* update or delete, sends no cache invalidation and leaves the table as
\* it was.
C2_IdentityFirst ==
  [][last'.op \in Mutating =>
       /\ Len(last'.trace) >= 1 /\ last'.trace[1].kind = "auth"
       /\ (Len(last'.trace) >= 2 => last'.trace[2].kind = "db.user.findUnique")
       /\ last'.identity # "known" =>
            /\ KindSet(last'.trace) \subseteq {"auth", "db.user.findUnique"}
            /\ ~last'.success
            /\ cars' = cars]_vars

C2_Witness ==
  /\ last.op = "deleteCar" /\ last.identity = "unknown"
  /\ Present # {}
  /\ Len(last.trace) = 2

\* C3 (as claimed): with at least one entry starting with "data:image/"
\* and no failing storage write, ingestion succeeds, uploads once per such
\* entry in input order, and stores one URL per such entry in that order.
WellFormed(entry) == StartsWith(entry, DataImage)
WellFormedAt == {p \in 1..Len(images) : WellFormed(images[p])}
RECURSIVE Ascending(_)
Ascending(S) ==
  IF S = {} THEN <<>>
  ELSE LET m == CHOOSE x \in S : \A y \in S : x <= y
       IN <<m>> \o Ascending(S \ {m})
ExpectedPaths(carId) ==
  LET ps == Ascending(WellFormedAt)
  IN [k \in 1..Len(ps) |-> FilePath(carId, ps[k] - 1, FileExtension(images[ps[k]]))]
UploadArgs(trace) ==
  LET ups == SelectSeq(trace, LAMBDA e : e.kind = "storage.upload")
  IN [k \in 1..Len(ups) |-> ups[k].arg]
NoUploadFailed(trace) ==
  \A k \in 1..Len(trace) : trace[k].kind = "storage.upload" => trace[k].res = "ok"

C3_OneUrlPerWellFormed ==
  (/\ last.op = "addCar" /\ last.identity = "known"
   /\ WellFormedAt # {}
   /\ NoUploadFailed(last.trace)) =>
    /\ "db.car.create" \in KindSet(last.trace)
    /\ UploadArgs(last.trace) = ExpectedPaths(last.id)
    /\ last.success =>
         cars[last.id].images =
           [k \in 1..Len(ExpectedPaths(last.id)) |-> PublicUrl(ExpectedPaths(last.id)[k])]

\* C4 (as claimed): an answer that parses as JSON but lacks a required key
\* of the mode gives a returned failure whose reason names the missing
\* keys, never success.
RequiredOf(op) == IF op = "processCarImageWithAI" THEN FullFields ELSE SearchFields
Answered == ai.op # "none" /\ ai.providerCalls = 1 /\ ai.text # <<>>
ParsedAnswer == JsonParse(CleanedText(ai.text))

C4_MissingKeysFail ==
  (/\ Answered
   /\ ParsedAnswer.ok /\ ParsedAnswer.value.t = "object"
   /\ RequiredOf(ai.op) \ ParsedAnswer.value.keys # {}) =>
    /\ ai.outcome = "returned"
    /\ ~ai.success
    /\ ai.error.fields = RequiredOf(ai.op) \ ParsedAnswer.value.keys

\* C5 (as claimed): when the provider answers with text that is not JSON
\* after fence stripping, the extractor returns a failure result and does
\* not throw.
C5_ParseFailureReturned ==
  (Answered /\ ~ParsedAnswer.ok) => (ai.outcome = "returned" /\ ~ai.success)

\* C6 (as claimed): a rate-limit denial ends processImageSearch with a
\* thrown error that holds the remaining quota and the reset time, any
\* other denial with a thrown error, and neither calls the provider.
C6_RateLimitedCarriesHints ==
  (ai.op = "processImageSearch" /\ ai.decision # "allow") =>
    /\ ai.outcome = "thrown"
    /\ ai.providerCalls = 0
    /\ ai.decision = "rate-limit" => ai.error.details = <<ai.remaining, ai.reset>>

\* C7: once deleteCar has deleted the row, the row is gone and the call
\* reports success whatever the storage removal does, and the removal is
\* called only after the row was deleted.
DeleteOkAt(trace) == {k \in 1..Len(trace) : trace[k].kind = "db.car.delete" /\ trace[k].res = "ok"}

C7_RowDeletedDespiteStorage ==
  last.op = "deleteCar" =>
    /\ DeleteOkAt(last.trace) # {} =>
         (cars[last.id] = NoCar /\ last.outcome = "returned" /\ last.success)
    /\ \A j \in 1..Len(last.trace) :
         last.trace[j].kind = "storage.remove" => \E k \in DeleteOkAt(last.trace) : k < j

C7_Witness ==
  /\ last.op = "deleteCar" /\ last.success
  /\ \E j \in 1..Len(last.trace) :
       last.trace[j].kind = "storage.remove" /\ last.trace[j].res = "throw"
  /\ cars[last.id] = NoCar

\* C8 (as claimed): an identity failure in addCar, getCars, deleteCar or
\* updateCarStatus always ends the call with a thrown error.
IdentityOps == {"addCar", "getCars", "deleteCar", "updateCarStatus"}
IdentityMessage == IF last.identity = "none" THEN "Unauthorized!" ELSE "User not found"

C8_IdentityFailureThrown ==
  (last.op \in IdentityOps /\ last.identity # "known") => last.outcome = "thrown"

\* C8 (amended): an identity failure ends the call without success: addCar
\* throws "Error adding car:" followed by the identity message; getCars,
\* deleteCar and updateCarStatus return success false with the identity
\* message as error.
C8_IdentityFailureReported ==
  (last.op \in IdentityOps /\ last.identity # "known") =>
    /\ ~last.success
    /\ last.op = "addCar" =>
         (last.outcome = "thrown" /\ last.error = "Error adding car:" \o IdentityMessage)
    /\ last.op # "addCar" =>
         (last.outcome = "returned" /\ last.error = IdentityMessage)

C8_Witness ==
  /\ last.op = "getCars" /\ last.identity = "none"
  /\ last.outcome = "returned" /\ last.error = "Unauthorized!"
  /\ Present # {}

\* C9: updateCarStatus writes only the fields given: without status the
\* status stays, without featured the featured flag stays, and the image
\* URLs of that Car and every other Car stay as they were.
C9_PartialUpdate ==
  [][last'.op = "updateCarStatus" =>
       /\ \A c \in CarIds :
            /\ cars'[c].images = cars[c].images
            /\ c # last'.id => cars'[c] = cars[c]
            /\ (cars[c] = NoCar) = (cars'[c] = NoCar)
       /\ \A c \in CarIds : last'.args.status = <<>> => cars'[c].status = cars[c].status
       /\ \A c \in CarIds : last'.args.featured = <<>> => cars'[c].featured = cars[c].featured]_vars

C9_Witness ==
  /\ last.op = "updateCarStatus" /\ last.success
  /\ last.args.status = <<>> /\ last.args.featured = <<TRUE>>
  /\ cars[last.id].status = "SOLD" /\ cars[last.id].featured
  /\ Present = CarIds

\* C10: deleteCar of an id with no Car returns success false with error
\* "Car not found", calls neither storage nor delete nor the cache
\* invalidation, and leaves the table as it was.
C10_DeleteMissing ==
  [][(last'.op = "deleteCar" /\ last'.identity = "known" /\ cars[last'.id] = NoCar) =>
       /\ last'.outcome = "returned" /\ ~last'.success
       /\ last'.error = "Car not found"
       /\ KindSet(last'.trace) \subseteq {"auth", "db.user.findUnique", "db.car.findUnique"}
       /\ cars' = cars]_vars

C10_Witness ==
  /\ last.op = "deleteCar" /\ last.identity = "known"
  /\ last.error = "Car not found"
  /\ cars[last.id] = NoCar /\ Present # {}

====
